---- MODULE Spec2Model ----
(***************************************************************************)
(* Model of btllib's SeqReaderFastqModule (seq_reader_fastq_module.hpp):   *)
(* the resumable four-stage FASTQ record parser with its three reading     *)
(* strategies read_buffer, read_transition and read_file.                  *)
(*                                                                         *)
(* Bytes are one-character strings.  The reader's buffer is a window       *)
(* [start, end) over data (0-based cursor, as in the code); the source is  *)
(* the FILE*: the bytes not yet delivered plus the stdio end-of-file and   *)
(* error indicators.                                                       *)
(***************************************************************************)
EXTENDS Integers, Sequences, FiniteSets, TLC

VARIABLES
  stage,     \* SeqReaderFastqModule::stage
  tmp,       \* SeqReaderFastqModule::tmp, the scratch separator accumulator
  record,    \* the caller's record: header, seq, qual
  buffer,    \* reader.buffer: data, start, end
  source,    \* reader.source: data (undelivered bytes), eof, err
  ret,       \* return value of the last call
  op,        \* name of the last operation
  log,       \* the line reads, stage assignments and clears of the last call
  input,     \* the whole input the session reads (fixed at Init)
  nreported, \* number of records handed to the caller with a true return
  exited     \* the process ran into std::exit(EXIT_FAILURE)

vars == <<stage, tmp, record, buffer, source, ret, op, log, input, nreported, exited>>

----------------------------------------------------------------------------
(* Bounds *)

MaxRecords == 2     \* complete records in an input
MaxBuf == 10        \* capacity of the read-ahead buffer, in bytes

----------------------------------------------------------------------------
(* Bytes, lines, records, inputs *)

NL == "\n"
EOF == "EOF"

Stages == <<"HEADER", "SEQ", "SEP", "QUAL">>
StageSet == {Stages[i] : i \in 1..4}

EmptyRecord == [header |-> <<>>, seq |-> <<>>, qual |-> <<>>]

\* Two well-formed records with pairwise different lines; the second one has
\* a separator line that carries content.
Rec1 == <<  <<"@">>, <<"A", "C">>, <<"+">>, <<"!">>  >>
Rec2 == <<  <<"@", "b">>, <<"G">>, <<"+", "b">>, <<"#">>  >>

RECURSIVE Flatten(_)
Flatten(ss) == IF ss = <<>> THEN <<>> ELSE Head(ss) \o Flatten(Tail(ss))

\* The bytes of a sequence of lines, each followed by its terminator.
RECURSIVE Bytes(_)
Bytes(lines) ==
  IF lines = <<>> THEN <<>> ELSE Head(lines) \o <<NL>> \o Bytes(Tail(lines))

\* The file Rec1 Rec2 Rec1 ... of n records.
File(n) == Bytes(Flatten([i \in 1..n |-> IF i % 2 = 1 THEN Rec1 ELSE Rec2]))

WellFormedInputs == {File(n) : n \in 0..MaxRecords}

\* Every input the session may meet: a well-formed input, or one cut short
\* at any byte (a truncated trailing record).
Inputs == {SubSeq(File(MaxRecords), 1, n) : n \in 0..Len(File(MaxRecords))}

\* The lines of a byte sequence (a last line without terminator counts).
RECURSIVE LinesOf(_, _)
LinesOf(bs, cur) ==
  IF bs = <<>> THEN (IF cur = <<>> THEN <<>> ELSE <<cur>>)
  ELSE IF Head(bs) = NL THEN <<cur>> \o LinesOf(Tail(bs), <<>>)
  ELSE LinesOf(Tail(bs), Append(cur, Head(bs)))

\* The records of a sequence of lines, four lines each.
RECURSIVE RecordsOf(_)
RecordsOf(lines) ==
  IF Len(lines) < 4 THEN <<>>
  ELSE <<[header |-> lines[1], seq |-> lines[2], qual |-> lines[4]]>>
       \o RecordsOf(SubSeq(lines, 5, Len(lines)))

WellFormed(bs) == bs \in WellFormedInputs

----------------------------------------------------------------------------
(* Events of a call *)

\* ok: a buffered read found its terminator; a stream read got bytes.
EvRead(via, dst, ok, line) == [ev |-> "read", via |-> via, arg |-> dst, ok |-> ok, line |-> line]
EvStage(to) == [ev |-> "stage", via |-> "", arg |-> to, ok |-> TRUE, line |-> <<>>]
EvClear(dst) == [ev |-> "clear", via |-> "", arg |-> dst, ok |-> TRUE, line |-> <<>>]

----------------------------------------------------------------------------
(* The line primitives and the stream probes *)

HasNL(bs) == \E i \in 1..Len(bs) : bs[i] = NL
FirstNL(bs) == CHOOSE i \in 1..Len(bs) : bs[i] = NL /\ \A j \in 1..(i - 1) : bs[j] # NL

Unread(b) == SubSeq(b.data, b.start + 1, b.end)

\* reader.readline_buffer_append(dst): all-or-nothing; copies the bytes up to
\* the next terminator and moves the cursor past it, or changes nothing.
readline_buffer_append(dst, b) ==
  LET u == Unread(b) IN
  IF HasNL(u)
  THEN [ok |-> TRUE, line |-> SubSeq(u, 1, FirstNL(u) - 1),
        dst |-> dst \o SubSeq(u, 1, FirstNL(u) - 1),
        buffer |-> [b EXCEPT !.start = b.start + FirstNL(u)]]
  ELSE [ok |-> FALSE, line |-> <<>>, dst |-> dst, buffer |-> b]

\* reader.readline_file(dst, source): dst becomes the next line of the stream
\* (what is left of it when the stream ends first); got tells whether the
\* stream still had a byte to deliver.
readline_file(f) ==
  IF HasNL(f.data)
  THEN [line |-> SubSeq(f.data, 1, FirstNL(f.data) - 1), got |-> TRUE,
        source |-> [f EXCEPT !.data = SubSeq(f.data, FirstNL(f.data) + 1, Len(f.data))]]
  ELSE [line |-> f.data, got |-> f.data # <<>>,
        source |-> [f EXCEPT !.data = <<>>, !.eof = TRUE]]

\* reader.readline_file_append(dst, source): the next line is appended to dst.
readline_file_append(dst, f) ==
  [dst |-> dst \o readline_file(f).line, line |-> readline_file(f).line,
   got |-> readline_file(f).got, source |-> readline_file(f).source]

\* std::fgetc
fgetc(f) ==
  IF f.data = <<>> THEN [p |-> EOF, source |-> [f EXCEPT !.eof = TRUE]]
  ELSE [p |-> Head(f.data), source |-> [f EXCEPT !.data = Tail(f.data)]]

\* std::ungetc
ungetc(p, f) == [f EXCEPT !.data = <<p>> \o f.data, !.eof = FALSE]

\* reader.file_at_end(source)
file_at_end(f) == f.data = <<>>

----------------------------------------------------------------------------
(* The parser.  A call works on s, the state it can touch:                 *)
(* [stage, tmp, record, buffer, source, log, ret, done].                   *)

Emit(s, e) == [s EXCEPT !.log = Append(s.log, e)]
SetStage(s, st) == Emit([s EXCEPT !.stage = st], EvStage(st))
Return(s, v) == [s EXCEPT !.ret = v]

\* Variant of the QUAL case that forgets to wrap the stage to HEADER.
BufCaseQUAL_NoWrap(s) ==
  LET r == readline_buffer_append(s.record.qual, s.buffer)
      s1 == Emit([s EXCEPT !.record.qual = r.dst, !.buffer = r.buffer],
                 EvRead("buffer", "qual", r.ok, r.line))
  IN IF ~r.ok THEN Return(s1, FALSE)
     ELSE Return(s1, TRUE)

\* read_buffer, case Stage::QUAL
BufCaseQUAL(s) ==
  LET r == readline_buffer_append(s.record.qual, s.buffer)
      s1 == Emit([s EXCEPT !.record.qual = r.dst, !.buffer = r.buffer],
                 EvRead("buffer", "qual", r.ok, r.line))
  IN IF ~r.ok THEN Return(s1, FALSE)
     ELSE Return(SetStage(s1, "HEADER"), TRUE)

\* Variant of the SEP case that leaves the separator line in tmp.
BufCaseSEP_NoClear(s) ==
  LET r == readline_buffer_append(s.tmp, s.buffer)
      s1 == Emit([s EXCEPT !.tmp = r.dst, !.buffer = r.buffer],
                 EvRead("buffer", "tmp", r.ok, r.line))
  IN IF ~r.ok THEN Return(s1, FALSE)
     ELSE BufCaseQUAL(SetStage(s1, "QUAL"))

\* read_buffer, case Stage::SEP, falling through to QUAL
BufCaseSEP(s) ==
  LET r == readline_buffer_append(s.tmp, s.buffer)
      s1 == Emit([s EXCEPT !.tmp = r.dst, !.buffer = r.buffer],
                 EvRead("buffer", "tmp", r.ok, r.line))
  IN IF ~r.ok THEN Return(s1, FALSE)
     ELSE BufCaseQUAL(Emit([SetStage(s1, "QUAL") EXCEPT !.tmp = <<>>], EvClear("tmp")))

\* Variant of the SEQ case that sets the stage one step too far.
BufCaseSEQ_StageSkip(s) ==
  LET r == readline_buffer_append(s.record.seq, s.buffer)
      s1 == Emit([s EXCEPT !.record.seq = r.dst, !.buffer = r.buffer],
                 EvRead("buffer", "seq", r.ok, r.line))
  IN IF ~r.ok THEN Return(s1, FALSE)
     ELSE BufCaseSEP(SetStage(s1, "QUAL"))

\* read_buffer, case Stage::SEQ, falling through to SEP
BufCaseSEQ(s) ==
  LET r == readline_buffer_append(s.record.seq, s.buffer)
      s1 == Emit([s EXCEPT !.record.seq = r.dst, !.buffer = r.buffer],
                 EvRead("buffer", "seq", r.ok, r.line))
  IN IF ~r.ok THEN Return(s1, FALSE)
     ELSE BufCaseSEP(SetStage(s1, "SEP"))

\* Variant of the HEADER case that takes the line from the stream.
BufCaseHEADER_FromStream(s) ==
  LET r == readline_file_append(s.record.header, s.source)
      s1 == Emit([s EXCEPT !.record.header = r.dst, !.source = r.source],
                 EvRead("stream", "header", r.got, r.line))
  IN BufCaseSEQ(SetStage(s1, "SEQ"))

\* read_buffer, case Stage::HEADER, falling through to SEQ
BufCaseHEADER(s) ==
  LET r == readline_buffer_append(s.record.header, s.buffer)
      s1 == Emit([s EXCEPT !.record.header = r.dst, !.buffer = r.buffer],
                 EvRead("buffer", "header", r.ok, r.line))
  IN IF ~r.ok THEN Return(s1, FALSE)
     ELSE BufCaseSEQ(SetStage(s1, "SEQ"))

\* read_buffer: the clears at entry
BufEntryClear(s) ==
  Emit(Emit(Emit([s EXCEPT !.record = EmptyRecord],
                 EvClear("header")), EvClear("seq")), EvClear("qual"))

\* Variant of read_buffer that also enters the switch on an empty window.
read_buffer_Inclusive(s) ==
  LET s0 == BufEntryClear(s) IN
  IF s0.buffer.start <= s0.buffer.end
  THEN CASE s0.stage = "HEADER" -> BufCaseHEADER(s0)
         [] s0.stage = "SEQ" -> BufCaseSEQ(s0)
         [] s0.stage = "SEP" -> BufCaseSEP(s0)
         [] s0.stage = "QUAL" -> BufCaseQUAL(s0)
         [] OTHER -> [s0 EXCEPT !.done = "exit"]
  ELSE Return(s0, FALSE)

\* SeqReaderFastqModule::read_buffer
read_buffer(s) ==
  LET s0 == BufEntryClear(s) IN
  IF s0.buffer.start < s0.buffer.end
  THEN CASE s0.stage = "HEADER" -> BufCaseHEADER(s0)
         [] s0.stage = "SEQ" -> BufCaseSEQ(s0)
         [] s0.stage = "SEP" -> BufCaseSEP(s0)
         [] s0.stage = "QUAL" -> BufCaseQUAL(s0)
         [] OTHER -> [s0 EXCEPT !.done = "exit"]
  ELSE Return(s0, FALSE)

\* read_transition, case Stage::QUAL
TransCaseQUAL(s) ==
  LET r == readline_file_append(s.record.qual, s.source)
      s1 == Emit([s EXCEPT !.record.qual = r.dst, !.source = r.source],
                 EvRead("stream", "qual", r.got, r.line))
  IN Return(SetStage(s1, "HEADER"), TRUE)

\* Variant of the SEP case that leaves the separator line in the stream.
TransCaseSEP_NoRead(s) ==
  TransCaseQUAL(Emit([SetStage(s, "QUAL") EXCEPT !.tmp = <<>>], EvClear("tmp")))

\* read_transition, case Stage::SEP, falling through to QUAL
TransCaseSEP(s) ==
  LET r == readline_file_append(s.tmp, s.source)
      s1 == Emit([s EXCEPT !.tmp = r.dst, !.source = r.source],
                 EvRead("stream", "tmp", r.got, r.line))
  IN TransCaseQUAL(Emit([SetStage(s1, "QUAL") EXCEPT !.tmp = <<>>], EvClear("tmp")))

\* Variant of the SEQ case that falls through past the SEP case.
TransCaseSEQ_SkipSep(s) ==
  LET r == readline_file_append(s.record.seq, s.source)
      s1 == Emit([s EXCEPT !.record.seq = r.dst, !.source = r.source],
                 EvRead("stream", "seq", r.got, r.line))
  IN TransCaseQUAL(SetStage(s1, "SEP"))

\* read_transition, case Stage::SEQ, falling through to SEP
TransCaseSEQ(s) ==
  LET r == readline_file_append(s.record.seq, s.source)
      s1 == Emit([s EXCEPT !.record.seq = r.dst, !.source = r.source],
                 EvRead("stream", "seq", r.got, r.line))
  IN TransCaseSEP(SetStage(s1, "SEP"))

\* Variant of the HEADER case that clears the record before it reads.
TransCaseHEADER_Clearing(s) ==
  LET r == readline_file_append(<<>>, s.source)
      s1 == Emit([s EXCEPT !.record = [EmptyRecord EXCEPT !.header = r.dst],
                           !.source = r.source],
                 EvRead("stream", "header", r.got, r.line))
  IN TransCaseSEQ(SetStage(s1, "SEQ"))

\* read_transition, case Stage::HEADER, falling through to SEQ
TransCaseHEADER(s) ==
  LET r == readline_file_append(s.record.header, s.source)
      s1 == Emit([s EXCEPT !.record.header = r.dst, !.source = r.source],
                 EvRead("stream", "header", r.got, r.line))
  IN TransCaseSEQ(SetStage(s1, "SEQ"))

\* Variant of the peek that does not push the byte back.
Peek_NoUnget(s) ==
  LET g == fgetc(s.source) IN [p |-> g.p, s |-> [s EXCEPT !.source = g.source]]

\* read_transition: the one-unit peek, pushed back when a byte was found
Peek(s) ==
  LET g == fgetc(s.source) IN
  IF g.p # EOF THEN [p |-> g.p, s |-> [s EXCEPT !.source = ungetc(g.p, g.source)]]
  ELSE [p |-> g.p, s |-> [s EXCEPT !.source = g.source]]

\* Variant of read_transition without the std::ferror test.
read_transition_NoErrorCheck(s) ==
  IF ~s.source.eof
  THEN LET k == Peek(s) IN
       IF k.p # EOF
       THEN CASE k.s.stage = "HEADER" -> TransCaseHEADER(k.s)
              [] k.s.stage = "SEQ" -> TransCaseSEQ(k.s)
              [] k.s.stage = "SEP" -> TransCaseSEP(k.s)
              [] k.s.stage = "QUAL" -> TransCaseQUAL(k.s)
              [] OTHER -> [k.s EXCEPT !.done = "exit"]
       ELSE Return(k.s, FALSE)
  ELSE Return(s, FALSE)

\* SeqReaderFastqModule::read_transition
read_transition(s) ==
  IF ~s.source.err /\ ~s.source.eof
  THEN LET k == Peek(s) IN
       IF k.p # EOF
       THEN CASE k.s.stage = "HEADER" -> TransCaseHEADER(k.s)
              [] k.s.stage = "SEQ" -> TransCaseSEQ(k.s)
              [] k.s.stage = "SEP" -> TransCaseSEP(k.s)
              [] k.s.stage = "QUAL" -> TransCaseQUAL(k.s)
              [] OTHER -> [k.s EXCEPT !.done = "exit"]
       ELSE Return(k.s, FALSE)
  ELSE Return(s, FALSE)

\* Variant of the four reads with the sequence and separator destinations
\* exchanged.
FileReads_Swapped(s) ==
  LET r1 == readline_file(s.source)
      r2 == readline_file(r1.source)
      r3 == readline_file(r2.source)
      r4 == readline_file(r3.source)
  IN [s EXCEPT !.record = [header |-> r1.line, seq |-> r3.line, qual |-> r4.line],
               !.tmp = r2.line,
               !.source = r4.source,
               !.log = s.log \o <<EvRead("stream", "header", r1.got, r1.line),
                                  EvRead("stream", "tmp", r2.got, r2.line),
                                  EvRead("stream", "seq", r3.got, r3.line),
                                  EvRead("stream", "qual", r4.got, r4.line)>>]

\* read_file: the four unconditional line reads
FileReads(s) ==
  LET r1 == readline_file(s.source)
      r2 == readline_file(r1.source)
      r3 == readline_file(r2.source)
      r4 == readline_file(r3.source)
  IN [s EXCEPT !.record = [header |-> r1.line, seq |-> r2.line, qual |-> r4.line],
               !.tmp = r3.line,
               !.source = r4.source,
               !.log = s.log \o <<EvRead("stream", "header", r1.got, r1.line),
                                  EvRead("stream", "seq", r2.got, r2.line),
                                  EvRead("stream", "tmp", r3.got, r3.line),
                                  EvRead("stream", "qual", r4.got, r4.line)>>]

\* Variant of read_file that resets the stage cursor when it has read a
\* record.
read_file_ResetStage(s) ==
  IF ~file_at_end(s.source)
  THEN Return([FileReads(s) EXCEPT !.stage = "HEADER"], TRUE)
  ELSE Return(s, FALSE)

\* Variant of read_file that reports failure when the stream ended during
\* the four reads.
read_file_Verifying(s) ==
  IF ~file_at_end(s.source)
  THEN Return(FileReads(s), ~FileReads(s).source.eof)
  ELSE Return(s, FALSE)

\* SeqReaderFastqModule::read_file
read_file(s) ==
  IF ~file_at_end(s.source)
  THEN Return(FileReads(s), TRUE)
  ELSE Return(s, FALSE)

----------------------------------------------------------------------------
(* The session *)

Here == [stage |-> stage, tmp |-> tmp, record |-> record, buffer |-> buffer,
         source |-> source, log |-> <<>>, ret |-> FALSE, done |-> "return"]

\* The state after a call that produced t.
Becomes(name, t) ==
  /\ ~exited
  /\ stage' = t.stage
  /\ tmp' = t.tmp
  /\ record' = t.record
  /\ buffer' = t.buffer
  /\ source' = t.source
  /\ log' = t.log
  /\ ret' = t.ret
  /\ op' = name
  /\ nreported' = IF t.ret THEN nreported + 1 ELSE nreported
  /\ exited' = (t.done = "exit")
  /\ UNCHANGED input

\* Variant of the construction without the initializer of stage.
Init_Uninitialized ==
  /\ input \in Inputs
  /\ stage \in StageSet \cup {"INVALID"}
  /\ tmp = <<>>
  /\ record = EmptyRecord
  /\ buffer = [data |-> <<>>, start |-> 0, end |-> 0]
  /\ source = [data |-> input, eof |-> FALSE, err |-> FALSE]
  /\ ret = FALSE
  /\ op = "init"
  /\ log = <<>>
  /\ nreported = 0
  /\ exited = FALSE

Init ==
  /\ input \in Inputs
  /\ stage = "HEADER"
  /\ tmp = <<>>
  /\ record = EmptyRecord
  /\ buffer = [data |-> <<>>, start |-> 0, end |-> 0]
  /\ source = [data |-> input, eof |-> FALSE, err |-> FALSE]
  /\ ret = FALSE
  /\ op = "init"
  /\ log = <<>>
  /\ nreported = 0
  /\ exited = FALSE

ReadBuffer == Becomes("read_buffer", read_buffer(Here))

ReadTransition == Becomes("read_transition", read_transition(Here))

ReadFile == Becomes("read_file", read_file(Here))

\* The data-supply layer loads the next n bytes of the stream behind the
\* unread bytes of the buffer (compacting it).
RefillN(n) ==
  /\ ~exited
  /\ Len(Unread(buffer)) + n <= MaxBuf
  /\ buffer' = [data |-> Unread(buffer) \o SubSeq(source.data, 1, n),
                start |-> 0,
                end |-> Len(Unread(buffer)) + n]
  /\ source' = [source EXCEPT !.data = SubSeq(source.data, n + 1, Len(source.data))]
  /\ op' = "refill"
  /\ log' = <<>>
  /\ UNCHANGED <<stage, tmp, record, ret, input, nreported, exited>>

Refill == \E n \in 1..Len(source.data) : RefillN(n)

\* A refill that ends at a line boundary.
RefillLines == \E n \in 1..Len(source.data) : source.data[n] = NL /\ RefillN(n)

\* The stream enters its error state.
StreamError ==
  /\ ~exited
  /\ ~source.err
  /\ source' = [source EXCEPT !.err = TRUE]
  /\ op' = "error"
  /\ log' = <<>>
  /\ UNCHANGED <<stage, tmp, record, buffer, ret, input, nreported, exited>>

\* Any session: every strategy, refill and stream error in any order.
Next == ReadBuffer \/ ReadTransition \/ ReadFile \/ Refill \/ StreamError

Spec == Init /\ [][Next]_vars

\* A session that uses the staged strategies only (buffering is active).
NextStaged == ReadBuffer \/ ReadTransition \/ Refill \/ StreamError

SpecStaged == Init /\ [][NextStaged]_vars

\* The record loop of a caller: read_buffer; after a false return either a
\* refill (at a line boundary) and read_buffer again, or read_transition;
\* after a true return the next record; a false read_transition ends it.
CallerReadBuffer ==
  /\ \/ op \in {"init", "refill"}
     \/ op \in {"read_buffer", "read_transition"} /\ ret
  /\ ReadBuffer

CallerRefill == op = "read_buffer" /\ ~ret /\ RefillLines

CallerReadTransition == op = "read_buffer" /\ ~ret /\ ReadTransition

NextCaller == CallerReadBuffer \/ CallerRefill \/ CallerReadTransition

SpecCaller == Init /\ [][NextCaller]_vars

TypeOK ==
  /\ stage \in StageSet
  /\ ret \in BOOLEAN
  /\ buffer.start <= buffer.end

----------------------------------------------------------------------------
(* Vocabulary of the properties *)

\* The longest prefix of bs that ends with a terminator.
RECURSIVE Complete(_)
Complete(bs) ==
  IF bs = <<>> \/ bs[Len(bs)] = NL THEN bs ELSE Complete(SubSeq(bs, 1, Len(bs) - 1))

\* The terminated lines of bs, and what follows the last terminator.
TLines(bs) == LinesOf(Complete(bs), <<>>)
Partial(bs) == SubSeq(bs, Len(Complete(bs)) + 1, Len(bs))

IsRead(e) == e.ev = "read"
IsStage(e) == e.ev = "stage"
Reads(lg) == SelectSeq(lg, IsRead)
IsOkRead(e) == e.ev = "read" /\ e.ok
OkReads(lg) == SelectSeq(lg, IsOkRead)

\* The lines a call read, in order.
LinesRead(lg) == [i \in 1..Len(OkReads(lg)) |-> OkReads(lg)[i].line]

\* The call whose events are lg began reading at the header line.
BeganAtHeader(lg) == Reads(lg) # <<>> /\ Reads(lg)[1].arg = "header"

\* The record made of the first k of the lines L, later fields empty.
FieldsUpTo(L, k) ==
  [header |-> L[1],
   seq |-> IF k >= 2 THEN L[2] ELSE <<>>,
   qual |-> IF k >= 4 THEN L[4] ELSE <<>>]

InputRecords == RecordsOf(LinesOf(input, <<>>))

Healthy(f) == ~f.err /\ ~f.eof

----------------------------------------------------------------------------
(* C1: a well-formed record that lies wholly in the buffer, met at stage   *)
(* HEADER, is returned by one read_buffer call: the call returns true,     *)
(* header, seq and qual are lines 1, 2 and 4 and the stage is HEADER       *)
(* again; a further read_buffer call on the buffer this consumed to its    *)
(* end returns false.                                                      *)
C1_BufferedRecordOnce ==
  [][ /\ (op' = "read_buffer" /\ stage = "HEADER" /\ Len(TLines(Unread(buffer))) >= 4)
         => /\ ret'
            /\ stage' = "HEADER"
            /\ record' = FieldsUpTo(TLines(Unread(buffer)), 4)
      /\ (op = "read_buffer" /\ ret /\ buffer.start = buffer.end /\ op' = "read_buffer")
         => ~ret'
    ]_vars

\* read_buffer has just returned the record Rec1 from a buffer that held
\* exactly that record.
C1_Witness ==
  /\ op = "read_buffer" /\ ret /\ stage = "HEADER"
  /\ Len(OkReads(log)) = 4
  /\ record = [header |-> Rec1[1], seq |-> Rec1[2], qual |-> Rec1[4]]
  /\ buffer.data = Bytes(Rec1) /\ buffer.start = buffer.end

----------------------------------------------------------------------------
(* C2: when the buffer holds exactly lines 1..k of a record (k in 1..3)    *)
(* and the stream the lines k+1..4, read_buffer from HEADER returns false  *)
(* stalled at stage k+1 with fields 1..k set; read_transition then returns *)
(* true with the record read_file returns on the unsplit record.           *)
C2_SplitEqualsDirect ==
  [][ /\ (/\ op' = "read_buffer" /\ stage = "HEADER"
          /\ Partial(Unread(buffer)) = <<>>
          /\ Len(TLines(Unread(buffer))) \in 1..3
          /\ Len(TLines(source.data)) >= 4 - Len(TLines(Unread(buffer))))
         => /\ ~ret'
            /\ stage' = Stages[Len(TLines(Unread(buffer))) + 1]
            /\ record' = FieldsUpTo(TLines(Unread(buffer)), Len(TLines(Unread(buffer))))
      /\ (/\ op = "read_buffer" /\ ~ret /\ BeganAtHeader(log)
          /\ Len(OkReads(log)) \in 1..3
          /\ buffer.start = buffer.end
          /\ Healthy(source)
          /\ Len(TLines(source.data)) >= 4 - Len(OkReads(log))
          /\ op' = "read_transition")
         => /\ ret'
            /\ record' = read_file([Here EXCEPT !.source.data =
                                       Bytes(LinesRead(log)) \o source.data]).record
    ]_vars

\* read_transition has completed Rec1, whose header and sequence lines came
\* from the buffer: its first read was the separator line.
C2_Witness ==
  /\ op = "read_transition" /\ ret
  /\ Reads(log)[1].arg = "tmp"
  /\ record = [header |-> Rec1[1], seq |-> Rec1[2], qual |-> Rec1[4]]

----------------------------------------------------------------------------
(* C3: when the buffer ends inside the sequence line (the header line is   *)
(* complete, the sequence line has bytes but no terminator), read_buffer   *)
(* returns false with the header set and stage SEQ, and a following        *)
(* read_transition on a stream holding the rest of the record returns true *)
(* with seq equal to the whole line: the bytes that were in the buffer     *)
(* followed by the bytes of the stream.                                    *)
C3_MidLineSplit ==
  [][ /\ (/\ op' = "read_buffer" /\ stage = "HEADER"
          /\ Len(TLines(Unread(buffer))) = 1
          /\ Partial(Unread(buffer)) # <<>>)
         => /\ ~ret'
            /\ stage' = "SEQ"
            /\ record'.header = TLines(Unread(buffer))[1]
      /\ (/\ op = "read_buffer" /\ ~ret /\ BeganAtHeader(log)
          /\ stage = "SEQ"
          /\ Unread(buffer) # <<>>
          /\ Healthy(source)
          /\ Len(TLines(source.data)) >= 3
          /\ op' = "read_transition")
         => /\ ret'
            /\ record'.seq = Unread(buffer) \o TLines(source.data)[1]
    ]_vars

----------------------------------------------------------------------------
(* C4: for a well-formed input cut at line boundaries into buffer fills,   *)
(* and a caller that after a false read_buffer either refills and calls    *)
(* read_buffer again or calls read_transition, the records returned with   *)
(* true are the input's records in order: the k-th true return carries the *)
(* k-th record of the input, and when the input is exhausted every record  *)
(* has been returned.                                                      *)
C4_RecordsInOrder ==
  [][ WellFormed(input) =>
        /\ (ret' /\ nreported' = nreported + 1)
           => /\ nreported' <= Len(InputRecords)
              /\ record' = InputRecords[nreported']
        /\ (op' = "read_transition" /\ ~ret' /\ Unread(buffer') = <<>>
            /\ source'.data = <<>> /\ ~source'.err)
           => nreported' = Len(InputRecords)
    ]_vars

----------------------------------------------------------------------------
(* C5: idempotence of incompletion: after read_buffer returned false, a    *)
(* further read_buffer call on the same unchanged buffer leaves header,    *)
(* seq and qual as the first call left them and the stage where it         *)
(* stalled.                                                                *)
C5_IncompleteIdempotent ==
  [][ (op = "read_buffer" /\ ~ret /\ op' = "read_buffer" /\ ~ret')
      => (record' = record /\ stage' = stage) ]_vars

----------------------------------------------------------------------------
(* C6: read_buffer clears the record only when entered at stage HEADER:    *)
(* entered at SEQ, SEP or QUAL, the header (and, from SEP on, the          *)
(* sequence) captured by earlier calls still hold their values at return.  *)
C6_NoClearMidRecord ==
  [][ (op' = "read_buffer" /\ stage \in {"SEQ", "SEP", "QUAL"})
      => /\ record'.header = record.header
         /\ stage \in {"SEP", "QUAL"} => record'.seq = record.seq ]_vars

----------------------------------------------------------------------------
(* C7: between calls of read_buffer and read_transition on a well-formed   *)
(* input with non-empty lines, the stage tells which fields are set: at    *)
(* SEQ the header is set and seq and qual are empty; at SEP and QUAL       *)
(* header and seq are set and qual is empty.                               *)
C7_StageIdentifiesFields ==
  WellFormed(input) =>
    /\ stage = "SEQ"
       => (record.header # <<>> /\ record.seq = <<>> /\ record.qual = <<>>)
    /\ stage \in {"SEP", "QUAL"}
       => (record.header # <<>> /\ record.seq # <<>> /\ record.qual = <<>>)

----------------------------------------------------------------------------
(* Stage steps of a call *)

Succ(st) ==
  CASE st = "HEADER" -> "SEQ" [] st = "SEQ" -> "SEP"
    [] st = "SEP" -> "QUAL" [] st = "QUAL" -> "HEADER"

\* The destination of the line read at stage st.
FieldOf(st) ==
  CASE st = "HEADER" -> "header" [] st = "SEQ" -> "seq"
    [] st = "SEP" -> "tmp" [] st = "QUAL" -> "qual"

StageEvs(lg) == SelectSeq(lg, IsStage)

\* The stages of a call entered at st, assignment after assignment.
StageTrace(st, lg) == <<st>> \o [i \in 1..Len(StageEvs(lg)) |-> StageEvs(lg)[i].arg]

SingleCyclicSteps(tr) == \A i \in 1..(Len(tr) - 1) : tr[i + 1] = Succ(tr[i])

Wrapped(lg) == \E i \in 1..Len(lg) : lg[i] = EvStage("HEADER")

\* The line was read: the buffered read found its terminator, the stream
\* read got bytes.
LineRead(e) == e.ev = "read" /\ e.ok

\* The read did not report a failure: the buffered read returned true; a
\* stream read returns nothing, so it never does.
NotFailed(e) == e.ev = "read" /\ (e.via = "stream" \/ e.ok)

\* Every stage assignment of lg directly follows a read, good in the sense
\* of Good, of the line of the stage it leaves, and every such read is
\* directly followed by a stage assignment.
OneStepPerLine(lg, Good(_)) ==
  /\ \A i \in 1..Len(lg) :
       lg[i].ev = "stage"
       => i > 1 /\ Good(lg[i - 1]) /\ Succ(CHOOSE st \in StageSet : FieldOf(st) = lg[i - 1].arg) = lg[i].arg
  /\ \A i \in 1..Len(lg) :
       Good(lg[i]) => i < Len(lg) /\ lg[i + 1].ev = "stage"

StagedCall(name) == name \in {"read_buffer", "read_transition"}

\* The statement of C8 as claimed: a stage step only for a line that was
\* read.
C8_StageStepsPerLineRead ==
  [][ StagedCall(op') =>
        /\ SingleCyclicSteps(StageTrace(stage, log'))
        /\ stage' = StageTrace(stage, log')[Len(StageTrace(stage, log'))]
        /\ OneStepPerLine(log', LineRead)
        /\ ret' <=> Wrapped(log')
    ]_vars

(* C8: from the initial stage HEADER, over any sequence of read_buffer and *)
(* read_transition calls, the stage changes only by single steps in the    *)
(* cyclic order HEADER, SEQ, SEP, QUAL, HEADER, one step per line read     *)
(* that did not report a failure (read_transition cannot see a stream read *)
(* fail: on a stream that ends inside a record it steps past the missing   *)
(* lines); the step QUAL to HEADER follows the read of the quality line,   *)
(* and a call returns true exactly when it made that step.                 *)
C8_StageStepsCyclic ==
  [][ StagedCall(op') =>
        /\ SingleCyclicSteps(StageTrace(stage, log'))
        /\ stage' = StageTrace(stage, log')[Len(StageTrace(stage, log'))]
        /\ OneStepPerLine(log', NotFailed)
        /\ ret' <=> Wrapped(log')
    ]_vars

\* read_transition returned true after stepping through the stages although
\* the stream ended inside the record.
C8_Witness ==
  /\ op = "read_transition" /\ ret /\ stage = "HEADER"
  /\ Len(StageEvs(log)) = 4
  /\ \E i \in 1..Len(log) : log[i].ev = "read" /\ ~log[i].ok

----------------------------------------------------------------------------
(* C9: whenever read_buffer or read_transition returns true, tmp is empty; *)
(* the separator line is cleared right after the SEP stage succeeds, and   *)
(* it never reaches a record field: a field holds what it held at entry    *)
(* (nothing, if the call cleared it) followed by the lines read into it.   *)

Cleared(lg, f) == \E i \in 1..Len(lg) : lg[i] = EvClear(f)

RECURSIVE ReadInto(_, _)
ReadInto(lg, f) ==
  IF lg = <<>> THEN <<>>
  ELSE (IF Head(lg).ev = "read" /\ Head(lg).arg = f THEN Head(lg).line ELSE <<>>)
       \o ReadInto(Tail(lg), f)

C9_SeparatorDiscarded ==
  [][ StagedCall(op') =>
        /\ ret' => tmp' = <<>>
        /\ \A i \in 1..Len(log') :
             (NotFailed(log'[i]) /\ log'[i].arg = "tmp")
             => /\ i + 2 <= Len(log')
                /\ log'[i + 1] = EvStage("QUAL")
                /\ log'[i + 2] = EvClear("tmp")
        /\ \A f \in {"header", "seq", "qual"} :
             record'[f] = (IF Cleared(log', f) THEN <<>> ELSE record[f]) \o ReadInto(log', f)
    ]_vars

\* read_buffer returned a record whose separator line had content.
C9_Witness ==
  /\ op = "read_buffer" /\ ret /\ tmp = <<>>
  /\ \E i \in 1..Len(log) : log[i].ev = "read" /\ log[i].arg = "tmp" /\ log[i].line = Rec2[3]

----------------------------------------------------------------------------
(* C10: when the stream is in its error state, at end-of-stream, or has no *)
(* byte for the peek, read_transition returns false without any line read  *)
(* and leaves the stage, tmp and the record unchanged; so it does at stage *)
(* HEADER at the true end of the input.                                    *)
C10_ExhaustedTransition ==
  [][ (op' = "read_transition" /\ (source.err \/ source.eof \/ source.data = <<>>))
      => /\ ~ret'
         /\ Reads(log') = <<>>
         /\ stage' = stage /\ tmp' = tmp /\ record' = record
    ]_vars

\* read_transition refused a stream in its error state that still had bytes.
C10_Witness ==
  /\ op = "read_transition" /\ ~ret
  /\ source.err /\ source.data # <<>>
  /\ log = <<>>

----------------------------------------------------------------------------
(* C11: exhaustion is reported only with no record in flight: for any      *)
(* input, also one that ends after 1 to 3 lines of a record, whenever      *)
(* read_transition returns false because the stream has no more bytes, the *)
(* stage is HEADER.                                                        *)
C11_ExhaustedOnlyAtHeader ==
  [][ (op' = "read_transition" /\ ~ret' /\ ~source.err /\ source.data = <<>>)
      => stage' = "HEADER" ]_vars

----------------------------------------------------------------------------
(* C12: read_file on a stream that stands at a well-formed record returns  *)
(* true after exactly four stream line reads in the order header,          *)
(* sequence, discarded separator, quality, with header, seq and qual the   *)
(* lines 1, 2 and 4 of the record; on a stream already at its end it       *)
(* returns false, reads nothing and leaves the record as it was.           *)
ReadArgs(lg) == [i \in 1..Len(Reads(lg)) |-> Reads(lg)[i].arg]
AllFromStream(lg) == \A i \in 1..Len(Reads(lg)) : Reads(lg)[i].via = "stream"

C12_DirectRecord ==
  [][ op' = "read_file" =>
        /\ Len(TLines(source.data)) >= 4
           => /\ ret'
              /\ ReadArgs(log') = <<"header", "seq", "tmp", "qual">>
              /\ AllFromStream(log')
              /\ LinesRead(log') = SubSeq(TLines(source.data), 1, 4)
              /\ record' = FieldsUpTo(TLines(source.data), 4)
        /\ source.data = <<>>
           => /\ ~ret'
              /\ Reads(log') = <<>>
              /\ record' = record
              /\ source'.data = <<>>
    ]_vars

\* read_file has returned the second record of the input, Rec2, in one call.
C12_Witness ==
  /\ op = "read_file" /\ ret
  /\ record = [header |-> Rec2[1], seq |-> Rec2[2], qual |-> Rec2[4]]
  /\ Len(OkReads(log)) = 4

----------------------------------------------------------------------------
(* C13: with no unread byte in the buffer (start = end) read_buffer        *)
(* returns false at once, without a call of the line primitive, and leaves *)
(* the stage and the buffer cursor unchanged, at every stage.              *)
C13_EmptyBufferIncomplete ==
  [][ (op' = "read_buffer" /\ buffer.start = buffer.end)
      => /\ ~ret'
         /\ Reads(log') = <<>>
         /\ stage' = stage
         /\ buffer' = buffer
    ]_vars

\* read_buffer has returned from an empty window in the middle of a record.
C13_Witness ==
  /\ op = "read_buffer" /\ ~ret
  /\ stage = "SEP"
  /\ buffer.start = buffer.end
  /\ Reads(log) = <<>>

----------------------------------------------------------------------------
(* C14: the buffer cursor never passes the buffer's end (start <= end in   *)
(* every reachable state); a read_buffer call moves it forward only, by    *)
(* exactly the bytes of the lines whose stage completed in the call, and   *)
(* does not read the stream.                                               *)
C14_CursorWithinBuffer ==
  /\ buffer.start <= buffer.end
  /\ [][ /\ buffer'.start <= buffer'.end
         /\ op' = "read_buffer"
            => /\ buffer'.start >= buffer.start
               /\ buffer'.data = buffer.data /\ buffer'.end = buffer.end
               /\ buffer'.start = buffer.start + Len(Bytes(LinesRead(log')))
               /\ Bytes(LinesRead(log'))
                    = SubSeq(buffer.data, buffer.start + 1, buffer'.start)
               /\ source' = source
       ]_vars

\* read_buffer has consumed two lines of a buffer and stopped before its
\* end, at an unterminated line.
C14_Witness ==
  /\ op = "read_buffer" /\ ~ret
  /\ Len(OkReads(log)) = 2
  /\ buffer.start < buffer.end

----------------------------------------------------------------------------
(* C15: read_transition never clears a record field: what a field held at  *)
(* entry is a prefix of what it holds at return, the fields of the stages  *)
(* before the entry stage are exactly unchanged, and the buffer window is  *)
(* not touched.                                                            *)
IsPrefix(a, b) == Len(a) <= Len(b) /\ SubSeq(b, 1, Len(a)) = a

C15_TransitionAppendsOnly ==
  [][ op' = "read_transition" =>
        /\ \A f \in {"header", "seq", "qual"} : IsPrefix(record[f], record'[f])
        /\ stage \in {"SEQ", "SEP", "QUAL"} => record'.header = record.header
        /\ stage \in {"SEP", "QUAL"} => record'.seq = record.seq
        /\ buffer' = buffer
    ]_vars

\* Two read_transition calls in a row from stage HEADER: the header of the
\* second record was appended to the header of the first.
C15_Witness ==
  /\ op = "read_transition" /\ ret
  /\ record.header = Rec1[1] \o Rec2[1]

----------------------------------------------------------------------------
(* C16: when the stream has no error and the peek finds a byte,            *)
(* read_transition entered at stage s reads from the stream the lines of   *)
(* exactly the stages s to QUAL, in order (4, 3, 2 or 1 reads), and        *)
(* returns true with stage HEADER; it never returns false after the peek   *)
(* found a byte.                                                           *)
StageIndex(st) == CHOOSE i \in 1..4 : Stages[i] = st

C16_TransitionCompletes ==
  [][ (op' = "read_transition" /\ Healthy(source) /\ source.data # <<>>)
      => /\ ret'
         /\ stage' = "HEADER"
         /\ ReadArgs(log') = SubSeq(<<"header", "seq", "tmp", "qual">>, StageIndex(stage), 4)
         /\ AllFromStream(log')
    ]_vars

\* read_transition entered at QUAL has done its single read.
C16_Witness ==
  /\ op = "read_transition" /\ ret /\ stage = "HEADER"
  /\ ReadArgs(log) = <<"qual">>

----------------------------------------------------------------------------
(* C17: the corrupted-state abort is unreachable: in every state reachable *)
(* from the initial stage HEADER by read_buffer, read_transition and       *)
(* read_file calls the stage is one of HEADER, SEQ, SEP, QUAL, and the     *)
(* default branch with its std::exit is never taken.                       *)
C17_NoCorruptedStage == stage \in StageSet /\ ~exited

\* All three strategies have run, read_file last and in the middle of a
\* staged record.
C17_Witness ==
  /\ op = "read_file" /\ ret
  /\ stage = "QUAL"
  /\ nreported >= 2

----------------------------------------------------------------------------
(* C18: the peek of read_transition consumes nothing: a byte it finds is   *)
(* pushed back before any line read, so the first line read of the call    *)
(* begins with that byte and the bytes the stream delivers over the call   *)
(* are those it would deliver without the peek.                            *)
C18_PeekConsumesNothing ==
  [][ (op' = "read_transition" /\ Healthy(source) /\ source.data # <<>>)
      => /\ Peek(Here).p = source.data[1]
         /\ Peek(Here).s.source.data = source.data
         /\ Reads(log')[1].ok
         /\ (Reads(log')[1].line \o <<NL>>)[1] = source.data[1]
         /\ Len(source'.data) <= Len(source.data)
         /\ source'.data = SubSeq(source.data, Len(source.data) - Len(source'.data) + 1,
                                  Len(source.data))
         /\ LinesRead(log') = LinesOf(SubSeq(source.data, 1,
                                             Len(source.data) - Len(source'.data)), <<>>)
    ]_vars

\* read_transition has read a whole record from the stream; its header line
\* begins with the byte the peek saw.
C18_Witness ==
  /\ op = "read_transition" /\ ret
  /\ ReadArgs(log) = <<"header", "seq", "tmp", "qual">>
  /\ Reads(log)[1].line = Rec2[1]

----------------------------------------------------------------------------
(* C19: read_file has no stage machine and does not use the buffer: at     *)
(* every stage at entry, also in the middle of a record, a read_file call, *)
(* returning true or false, leaves the stage and the buffer cursor         *)
(* unchanged.                                                              *)
C19_DirectLeavesStageAndBuffer ==
  [][ op' = "read_file" => (stage' = stage /\ buffer' = buffer) ]_vars

\* read_file has returned a record while the stage stood at SEP and the
\* buffer still held unread bytes.
C19_Witness ==
  /\ op = "read_file" /\ ret
  /\ stage = "SEP"
  /\ buffer.start < buffer.end

----------------------------------------------------------------------------
(* C20: read_file does not verify that the record is complete: whenever    *)
(* the stream is not at its end at entry it does all four line reads and   *)
(* returns true, also when fewer than four lines are left, so a truncated  *)
(* trailing record is reported as a record.                                *)
C20_DirectUnverified ==
  [][ (op' = "read_file" /\ source.data # <<>>)
      => /\ ret'
         /\ nreported' = nreported + 1
         /\ ReadArgs(log') = <<"header", "seq", "tmp", "qual">>
    ]_vars

\* read_file has returned true although the stream ended after the header
\* line: three of its reads got nothing.
C20_Witness ==
  /\ op = "read_file" /\ ret
  /\ Len(OkReads(log)) = 1
  /\ record.header # <<>> /\ record.seq = <<>> /\ record.qual = <<>>

====
